---- MODULE Spec2Model ----
(***************************************************************************)
(* github-repo-search: the repository-suggestion engine of the browser     *)
(* extension (src/extension/src/background/background.js, the variant      *)
(* that starts at line 683), with the popup and the options page that      *)
(* drive it.                                                               *)
(*                                                                         *)
(* Strings are TLA+ strings; TLC treats them as sequences of characters    *)
(* (Len, \o, SubSeq), so descriptions, queries and URLs are matched,       *)
(* split and rewritten character by character as the JavaScript does.      *)
(***************************************************************************)
EXTENDS Integers, Sequences, FiniteSets, TLC

VARIABLES
    isChrome,          \* isChrome / isFirefox: fixed per browser build
    account,           \* the GitHub account: the number of its repositories
    config,            \* persisted synced settings: token, autosync, archived
    repos,             \* persisted local cache: the value stored under 'repos'
    localKeys,         \* the keys that storage.local holds
    Authorization,     \* FETCH_PARAMS.headers.Authorization
    showArchivedRepos, \* let showArchivedRepos
    autoSyncRepos,     \* let autoSyncRepos
    isFetching,        \* let isFetching
    suggestionsCache,  \* let suggestionsCache
    initPc,            \* position of init(): "getConfig", "syncLocal" or "done"
    chains,            \* the getRepos chains that wait for a response
    pendingSet,        \* storage.local.set calls whose callback has not run yet
    alarm,             \* the periodic alarm: set or not, and its period
    notifications,     \* notifications created so far, oldest first
    popup,             \* the popup page: open or not, sync button disabled or not,
                       \* options button asking for a token or not
    omnibox,           \* last default suggestion and suggestion list handed to the browser
    pendingGet,        \* queries waiting for the storage.local.get of syncLocalRepos,
                       \* each with the number of fetches ended when it arrived
    tabs,              \* last navigation asked of browser.tabs: the url and how
    nSyncs,            \* number of syncRepos calls so far
    nRequests,         \* number of network requests issued so far
    nEvents,           \* number of user and timer events so far
    lastCall,          \* what the last syncRepos call found and did
    lastFetch,         \* the last fetch that ended: its pages and how it ended
    sinceStart,        \* the cache, the header and showArchivedRepos when the last fetch
                       \* started, and the cache writes since
    qText,             \* matcher specification: the query given to highlightResults
    qResults,          \* matcher specification: the candidate list given to it
    qOut,              \* matcher specification: the value it returned
    qPc                \* matcher specification: "ready" before the call, "done" after

(***************************************************************************)
(* Program constants                                                       *)
(***************************************************************************)
MAX_SUGGESTIONS == 10

RESULTS_PER_PAGE == 100

(***************************************************************************)
(* Bounds of the model                                                     *)
(***************************************************************************)
\* at most MaxRequests network requests are issued
MaxRequests == 3

\* at most MaxEvents user and timer events arrive (popup, options, alarm, omnibox)
MaxEvents == 2

\* a candidate list of the matcher specification is made of at most MaxRuns runs
MaxRuns == 3

\* a run is one candidate or RunLen candidates of the same kind
RunLen == 10

(***************************************************************************)
(* Characters and the pattern language                                     *)
(*                                                                         *)
(* Queries are drawn from the alphabet of letters, digits, "-", " ", "/",  *)
(* "." and "(".  In a JavaScript pattern over this alphabet every          *)
(* character is a literal, except "." (any character) and "(" (opens a     *)
(* group: with no ")" in the alphabet the pattern does not compile).       *)
(***************************************************************************)
Char(s, i) == SubSeq(s, i, i)

\* the 'i' flag: letters compare by their lower-case form
Lower(c) ==
    CASE c = "A" -> "a"
      [] c = "P" -> "p"
      [] c = "I" -> "i"
      [] c = "W" -> "w"
      [] OTHER -> c

\* new RegExp(text, 'i') throws a SyntaxError on an unterminated group
RegExpCompiles(text) == \A i \in 1..Len(text) : Char(text, i) # "("

CharMatches(pc, c) == pc = "." \/ Lower(pc) = Lower(c)

\* the pattern matches the subject at position i
MatchesAt(pattern, s, i) ==
    /\ i + Len(pattern) - 1 <= Len(s)
    /\ \A k \in 1..Len(pattern) : CharMatches(Char(pattern, k), Char(s, i + k - 1))

\* RegExp.prototype.test
RegExpTest(pattern, s) == \E i \in 1..(Len(s) + 1) : MatchesAt(pattern, s, i)

\* position of the leftmost match (the pattern matches s)
FirstMatch(pattern, s) ==
    CHOOSE i \in 1..(Len(s) + 1) :
        /\ MatchesAt(pattern, s, i)
        /\ \A j \in 1..(i - 1) : ~MatchesAt(pattern, s, j)

\* String.prototype.replace with a pattern that has no 'g' flag and the
\* replacement '<match>$&</match>': only the leftmost match is wrapped
ReplaceMatch(pattern, s) ==
    IF ~RegExpTest(pattern, s) THEN s
    ELSE LET n == Len(pattern)
         IN  CHOOSE out \in
                 { SubSeq(s, 1, i - 1) \o "<match>" \o SubSeq(s, i, i + n - 1)
                       \o "</match>" \o SubSeq(s, i + n, Len(s)) :
                   i \in {FirstMatch(pattern, s)} } : TRUE

\* positions of "/" in s
SlashPositions(s) == { i \in 1..Len(s) : Char(s, i) = "/" }

\* description.split('/').pop(): the text after the last "/", or all of it
LastSegment(s) ==
    IF SlashPositions(s) = {} THEN s
    ELSE LET p == CHOOSE i \in SlashPositions(s) : \A j \in SlashPositions(s) : j <= i
         IN  SubSeq(s, p + 1, Len(s))

(***************************************************************************)
(* Repository records and suggestions                                      *)
(***************************************************************************)
formatAsSuggestion(data) ==
    [content |-> data.html_url, description |-> data.full_name \o " -"]

isMatch(description, text, onlyRepo) ==
    \E matchText \in {IF onlyRepo THEN LastSegment(description) ELSE description} :
        RegExpTest(text, matchText)

(***************************************************************************)
(* highlightResults (background.js:816-868)                                *)
(***************************************************************************)
\* body of the first loop for the candidate repo; acc = [highlights, added, broken],
\* broken when the body ends with break
NameStep(text, acc, repo) ==
    IF ~isMatch(repo.description, text, TRUE) THEN acc
    ELSE [highlights |-> Append(acc.highlights, repo),
          added |-> acc.added \cup {repo.description},
          broken |-> Len(acc.highlights) + 1 = MAX_SUGGESTIONS]

\* first loop over results[lo..hi]: the candidates are visited one by one from lo
\* to hi until a break (the range is halved only to keep the evaluation shallow)
RECURSIVE NameLoop(_, _, _, _, _)
NameLoop(text, results, lo, hi, acc) ==
    IF lo > hi \/ acc.broken THEN acc
    ELSE IF lo = hi THEN NameStep(text, acc, results[lo])
    ELSE CHOOSE out \in
             { IF h.left.broken THEN h.left
               ELSE NameLoop(text, results, h.mid + 1, hi, h.left) :
                  h \in { [mid |-> m, left |-> NameLoop(text, results, lo, m, acc)] :
                             m \in {(lo + hi) \div 2} } } : TRUE

\* body of the second loop: break is tested only after a push
OwnerStep(text, acc, repo) ==
    IF repo.description \in acc.added \/ ~isMatch(repo.description, text, FALSE) THEN acc
    ELSE [acc EXCEPT !.highlights = Append(acc.highlights, repo),
                     !.broken = Len(acc.highlights) + 1 = MAX_SUGGESTIONS]

\* second loop over results[lo..hi], visited from lo to hi until a break
RECURSIVE OwnerLoop(_, _, _, _, _)
OwnerLoop(text, results, lo, hi, acc) ==
    IF lo > hi \/ acc.broken THEN acc
    ELSE IF lo = hi THEN OwnerStep(text, acc, results[lo])
    ELSE CHOOSE out \in
             { IF h.left.broken THEN h.left
               ELSE OwnerLoop(text, results, h.mid + 1, hi, h.left) :
                  h \in { [mid |-> m, left |-> OwnerLoop(text, results, lo, m, acc)] :
                             m \in {(lo + hi) \div 2} } } : TRUE

\* both loops: the second one is entered whatever the first one collected
BothLoops(text, results) ==
    LET start == [highlights |-> << >>, added |-> {}, broken |-> FALSE]
    IN  CHOOSE out \in
            { OwnerLoop(text, results, 1, Len(results),
                        [first EXCEPT !.broken = FALSE]).highlights :
                 first \in {NameLoop(text, results, 1, Len(results), start)} } : TRUE

\* mutant: the markup is put into the content as well
Highlighted_ContentMarked(text, res) ==
    [content |-> ReplaceMatch(text, res.content),
     description |->
        IF isChrome
        THEN "<dim>" \o ReplaceMatch(text, res.description) \o "</dim> <url>"
                 \o res.content \o "</url>"
        ELSE res.description]

\* the .map at the end: Chrome gets markup, Firefox the plain description
Highlighted(text, res) ==
    [content |-> res.content,
     description |->
        IF isChrome
        THEN "<dim>" \o ReplaceMatch(text, res.description) \o "</dim> <url>"
                 \o res.content \o "</url>"
        ELSE res.description]

\* mutant: the catch hands back the candidates instead of an empty list
highlightResults_CatchReturnsAll(text, results) ==
    IF ~RegExpCompiles(text) THEN results
    ELSE CHOOSE out \in
             { [i \in 1..Len(highlights) |-> Highlighted(text, highlights[i])] :
                  highlights \in {BothLoops(text, results)} } : TRUE

highlightResults(text, results) ==
    IF ~RegExpCompiles(text) THEN << >>
    ELSE CHOOSE out \in
             { [i \in 1..Len(highlights) |-> Highlighted(text, highlights[i])] :
                  highlights \in {BothLoops(text, results)} } : TRUE

(***************************************************************************)
(* Inputs of the matcher specification                                     *)
(***************************************************************************)
\* kinds of repository, by what the query "api" matches in them
Kinds == <<"name", "owner", "none">>

OwnerOf(kind) == IF kind = "owner" THEN "api" ELSE "acme"

NameOf(kind) == IF kind = "name" THEN "api-server" ELSE "widgets"

\* the n-th repository of a kind: api-server, api-server2, api-server3, ...
RepoRecord(kind, n, isArchived) ==
    LET full == OwnerOf(kind) \o "/" \o NameOf(kind) \o (IF n = 1 THEN "" ELSE ToString(n))
    IN  [full_name |-> full, html_url |-> "https://github.com/" \o full, archived |-> isArchived]

Queries == {"api", "A.i", "(", "-", "zz"}

\* a run: one candidate or RunLen candidates of one kind
RunTypes == { <<Kinds[k], c>> : k \in 1..Len(Kinds), c \in {1, RunLen} }

RECURSIVE Expand(_)
Expand(runs) ==
    IF runs = << >> THEN << >>
    ELSE [i \in 1..Head(runs)[2] |-> Head(runs)[1]] \o Expand(Tail(runs))

\* the cached suggestions of the repositories of the given kinds, in order
CandidatesOf(kinds) ==
    [i \in 1..Len(kinds) |->
        formatAsSuggestion(RepoRecord(kinds[i],
            Cardinality({ j \in 1..i : kinds[j] = kinds[i] }), FALSE))]

CandidateLists ==
    { CandidatesOf(Expand(runs)) : runs \in UNION { [1..n -> RunTypes] : n \in 0..MaxRuns } }

(***************************************************************************)
(* The GitHub API: what a request for a page may return                    *)
(***************************************************************************)
\* the repository with the given position in the account's list
RepoAt(id, isArchived) ==
    RepoRecord(Kinds[(id % Len(Kinds)) + 1], (id \div Len(Kinds)) + 1, isArchived)

\* every second repository of an account is archived
ArchivedAt(id) == id % 2 = 0

\* the numbers of repositories an account may have
AccountSizes == {0, 37, 100, 237}

\* the repositories of the largest account, in the order of the API
AllRepos == [id \in 1..237 |-> RepoAt(id, ArchivedAt(id))]

\* GET /user/repos?per_page=100&page=N: the JSON array of a successful response
PageData(size, page) ==
    LET from == (page - 1) * RESULTS_PER_PAGE
        upto == IF page * RESULTS_PER_PAGE < size THEN page * RESULTS_PER_PAGE ELSE size
    IN  IF from >= size THEN << >> ELSE SubSeq(AllRepos, from + 1, upto)

\* requests a complete fetch of the account takes
PagesOf(size) == (size \div RESULTS_PER_PAGE) + 1

\* a request ends with a page, an HTTP error status, or no readable response
Responses == {"ok", "401", "500", "network"}

\* the cache left by an earlier run of the extension
OldCache ==
    << formatAsSuggestion(RepoRecord("name", 900, FALSE)),
       formatAsSuggestion(RepoRecord("owner", 900, FALSE)) >>

(***************************************************************************)
(* Settings                                                                *)
(***************************************************************************)
\* a number, or the text of the autosync input field of the options page
Num(n) == [str |-> FALSE, val |-> n]

Str(n) == [str |-> TRUE, val |-> n]

\* JavaScript truthiness: a non-empty string is true whatever it spells
Truthy(v) == v.str \/ v.val # 0

\* nothing saved yet: getConfig answers with its defaults
FreshConfig == [stored |-> FALSE, token |-> "", autosync |-> Num(30), archived |-> FALSE]

Saved(token, autosync, archived) ==
    [stored |-> TRUE, token |-> token, autosync |-> autosync, archived |-> archived]

\* the settings and the cache found at start-up
InitStores ==
    { [config |-> FreshConfig, keys |-> {}, repos |-> << >>],
      [config |-> Saved("t1", Str(30), FALSE), keys |-> {"repos"}, repos |-> OldCache] }

\* what the options form can save (saveOptions)
SavedConfigs ==
    { Saved("t2", Str(30), FALSE), Saved("t1", Str(30), TRUE), Saved("t1", Str(0), FALSE),
      Saved("", Str(30), FALSE), Saved("t2", Str(0), TRUE) }

\* storage.onChanged names a key when its stored value changes or first appears
Changed(new, key) == ~config.stored \/ new[key] # config[key]

setToken(token) == "token " \o token

(***************************************************************************)
(* Variable groups                                                         *)
(***************************************************************************)
envVars == <<isChrome, account>>

settingsVars == <<Authorization, showArchivedRepos, autoSyncRepos>>

syncVars == <<isFetching, chains, repos, localKeys, pendingSet, nSyncs, nRequests,
              lastCall, lastFetch, sinceStart>>

sessionVars == <<suggestionsCache, omnibox, pendingGet>>

matchVars == <<qText, qResults, qOut, qPc>>

vars == <<envVars, config, settingsVars, syncVars, sessionVars, tabs, initPc, alarm,
          notifications, popup, nEvents, matchVars>>

(***************************************************************************)
(* Notifications and alarms                                                *)
(***************************************************************************)
createNotification(kind) == notifications' = Append(notifications, kind)

createAlarm(time) == alarm' = [on |-> TRUE, period |-> time.val]

cancelAlarm == alarm' = [on |-> FALSE, period |-> 0]

(***************************************************************************)
(* search and syncRepos (background.js:897-962)                            *)
(***************************************************************************)
\* mutant: the stored list read back to front
LocalRepos_Reversed == [i \in 1..Len(repos) |-> repos[Len(repos) + 1 - i]]

\* browser.storage.local.get({ repos: [] }, ...): the value stored under 'repos', or
\* the default given when nothing is stored under it
LocalRepos == IF "repos" \in localKeys THEN repos ELSE << >>

\* mutant: search without the isFetching guard
SearchSkips_Never == FALSE

\* search returns Promise.resolve([]) at once when a fetch is under way
SearchSkips == isFetching

\* a new getRepos chain: the request for page 1 goes out with the header as the
\* handler that called syncRepos has left it (auth: the header of the request that
\* is under way)
NewChain(notify, callback) ==
    [id |-> nSyncs + 1, page |-> 1, items |-> << >>, notify |-> notify,
     callback |-> callback, auth |-> Authorization', pages |-> << >>, reqs |-> <<1>>]

\* mutant: the new list appended to the stored one
WriteRepos_Merge(value, notify, callback) ==
    /\ repos' = repos \o value
    /\ localKeys' = localKeys \cup {"repos"}
    /\ pendingSet' = Append(pendingSet, [notify |-> notify, callback |-> callback])

\* storage.local.set({ repos }, ...) of syncRepos: the value is replaced and the
\* callback is queued
WriteRepos(value, notify, callback) ==
    /\ repos' = value
    /\ localKeys' = localKeys \cup {"repos"}
    /\ pendingSet' = Append(pendingSet, [notify |-> notify, callback |-> callback])

\* syncRepos(notify, callback): search(), and the .then of a promise that is
\* already resolved
syncRepos(notify, callback) ==
    /\ nSyncs' = nSyncs + 1
    /\ IF SearchSkips
       THEN /\ WriteRepos(<< >>, notify, callback)
            /\ sinceStart' = [sinceStart EXCEPT !.writes = @ + 1]
            /\ lastCall' = [n |-> nSyncs + 1, wasFetching |-> isFetching,
                            requests |-> 0, result |-> "empty"]
            /\ UNCHANGED <<isFetching, chains, nRequests, lastFetch>>
       ELSE /\ nRequests + PagesOf(account) <= MaxRequests
            /\ isFetching' = TRUE
            /\ chains' = chains \cup {NewChain(notify, callback)}
            /\ nRequests' = nRequests + 1
            /\ sinceStart' = [repos |-> repos, writes |-> 0, auth |-> Authorization',
                              shown |-> showArchivedRepos']
            /\ lastCall' = [n |-> nSyncs + 1, wasFetching |-> isFetching,
                            requests |-> 1, result |-> "pending"]
            /\ UNCHANGED <<repos, localKeys, pendingSet, lastFetch>>

(***************************************************************************)
(* getRepos (background.js:904-939): one response of the API               *)
(***************************************************************************)
NotArchived(repo) == ~repo.archived

\* mutant: the archived filter is left out
KeptRecords_NoFilter(data) == data

\* lines 923-925
KeptRecords(data) == IF ~showArchivedRepos THEN SelectSeq(data, NotArchived) ELSE data

\* mutant: the new page is put in front of the pages already fetched
Accumulate_Prepend(items, data) ==
    [i \in 1..Len(data) |-> formatAsSuggestion(data[i])] \o items

\* line 927
Accumulate(items, data) == items \o [i \in 1..Len(data) |-> formatAsSuggestion(data[i])]

\* mutant: the length after the archived filter decides
StopsAfter_Filtered(totalResults, data) == Len(data) = 0 \/ Len(data) < RESULTS_PER_PAGE

\* line 929: the raw length of the page decides, not the filtered one
StopsAfter(totalResults, data) == totalResults = 0 \/ totalResults < RESULTS_PER_PAGE

\* the end of a getRepos chain with the response r: what the chain did, for the
\* properties
EndFetch(c, r, pages, written, notified) ==
    lastFetch' = [n |-> lastFetch.n + 1, id |-> c.id,
                  status |-> IF r = "ok" THEN "ok" ELSE "failed", cause |-> r,
                  notified |-> notified, pages |-> pages,
                  reqs |-> c.reqs, before |-> sinceStart.repos, after |-> written,
                  started |-> [auth |-> sinceStart.auth, shown |-> sinceStart.shown]]

\* lines 908-919: an error status that arrives with a JSON body raises tokenError
\* (401) or syncError; a rejected fetch or an unreadable body throws before any
\* createNotification
FailureNotifications(r) ==
    CASE r = "401" -> <<"tokenError">>
      [] r = "500" -> <<"syncError">>
      [] OTHER -> << >>

\* mutant: the catch of getRepos without isFetching = false
Failed_KeepsFetching(c, r) ==
    /\ chains' = chains \ {c}
    /\ notifications' = notifications \o FailureNotifications(r)
    /\ EndFetch(c, r, c.pages, repos, FailureNotifications(r))
    /\ UNCHANGED <<isFetching, repos, localKeys, pendingSet, nRequests, sinceStart>>

\* the catch of getRepos: nothing is returned, syncRepos' .catch swallows the error
Failed(c, r) ==
    /\ isFetching' = FALSE
    /\ chains' = chains \ {c}
    /\ notifications' = notifications \o FailureNotifications(r)
    /\ EndFetch(c, r, c.pages, repos, FailureNotifications(r))
    /\ UNCHANGED <<repos, localKeys, pendingSet, nRequests, sinceStart>>

Succeeded(c) ==
    \E raw \in {PageData(account, c.page)} :
    \E data \in {KeptRecords(raw)} :
    \E items \in {Accumulate(c.items, data)} :
    LET totalResults == Len(raw)
        pages == Append(c.pages, [size |-> totalResults, shown |-> showArchivedRepos,
                                  auth |-> c.auth])
    IN  IF StopsAfter(totalResults, data)
        THEN /\ isFetching' = FALSE
             /\ chains' = chains \ {c}
             /\ WriteRepos(items, c.notify, c.callback)
             /\ sinceStart' = [sinceStart EXCEPT !.writes = @ + 1]
             /\ EndFetch(c, "ok", pages, items, << >>)
             /\ UNCHANGED <<nRequests, notifications>>
        ELSE /\ nRequests < MaxRequests
             /\ chains' = (chains \ {c}) \cup
                    {[c EXCEPT !.page = c.page + 1, !.items = items, !.pages = pages,
                               !.auth = Authorization, !.reqs = Append(c.reqs, c.page + 1)]}
             /\ nRequests' = nRequests + 1
             /\ UNCHANGED <<isFetching, repos, localKeys, pendingSet, sinceStart, lastFetch,
                            notifications>>

FetchResponse(c, r) ==
    /\ c \in chains
    /\ CASE r = "ok" -> Succeeded(c)
         [] OTHER -> Failed(c, r)
    /\ UNCHANGED <<envVars, tabs, config, settingsVars, sessionVars, initPc, alarm, popup,
                   nSyncs, nEvents, lastCall, matchVars>>

\* the callback of storage.local.set in syncRepos (background.js:953-959)
SetDone ==
    /\ pendingSet # << >>
    /\ LET done == Head(pendingSet) IN
         /\ pendingSet' = Tail(pendingSet)
         /\ IF done.notify THEN createNotification("syncSuccess")
                           ELSE UNCHANGED notifications
         /\ IF done.callback = "alarm"
            THEN IF Truthy(autoSyncRepos) THEN createAlarm(autoSyncRepos) ELSE cancelAlarm
            ELSE UNCHANGED alarm
    /\ UNCHANGED <<envVars, tabs, config, settingsVars, sessionVars, initPc, popup, nEvents,
                   isFetching, chains, repos, localKeys, nSyncs, nRequests, lastCall,
                   lastFetch,
                   sinceStart, matchVars>>

(***************************************************************************)
(* The triggers of a sync                                                  *)
(***************************************************************************)
\* init (background.js:1193-1223): the callback of getConfig
InitConfigLoaded ==
    /\ initPc = "getConfig"
    /\ showArchivedRepos' = config.archived
    /\ autoSyncRepos' = config.autosync
    /\ IF config.token # ""
       THEN Authorization' = setToken(config.token) /\ initPc' = "syncLocal"
       ELSE UNCHANGED Authorization /\ initPc' = "done"
    /\ UNCHANGED <<envVars, tabs, config, syncVars, sessionVars, alarm, notifications, popup,
                   nEvents, matchVars>>

\* mutant: the start-up sync asks for the success notification
InitLocalLoaded_Notifies ==
    /\ initPc = "syncLocal"
    /\ initPc' = "done"
    /\ suggestionsCache' = LocalRepos
    /\ UNCHANGED <<envVars, tabs, config, settingsVars, omnibox, pendingGet, alarm, notifications,
                   popup, nEvents, matchVars>>
    /\ syncRepos(TRUE, "alarm")

\* init: the callback of syncLocalRepos, which calls syncRepos(false, ...)
InitLocalLoaded ==
    /\ initPc = "syncLocal"
    /\ initPc' = "done"
    /\ suggestionsCache' = LocalRepos
    /\ UNCHANGED <<envVars, tabs, config, settingsVars, omnibox, pendingGet, alarm, notifications,
                   popup, nEvents, matchVars>>
    /\ syncRepos(FALSE, "alarm")

\* mutant: a status that never shows a fetch
getStatus_NeverFetching == [isFetching |-> FALSE, token |-> Authorization]

\* getStatus() (background.js:802-807)
getStatus == [isFetching |-> isFetching, token |-> Authorization]

\* the popup page is opened: its script reads getStatus() once
PopupOpen ==
    /\ nEvents < MaxEvents
    /\ nEvents' = nEvents + 1
    /\ popup' = [open |-> TRUE,
                 disabled |-> getStatus.isFetching \/ getStatus.token = "",
                 needsToken |-> getStatus.token = ""]
    /\ UNCHANGED <<envVars, tabs, config, settingsVars, syncVars, sessionVars, initPc, alarm,
                   notifications, matchVars>>

\* the sync button of the popup is clicked
PopupSync ==
    /\ nEvents < MaxEvents
    /\ nEvents' = nEvents + 1
    /\ popup.open /\ ~popup.disabled
    /\ popup' = [popup EXCEPT !.disabled = TRUE]
    /\ UNCHANGED <<envVars, tabs, config, settingsVars, sessionVars, initPc, alarm,
                   notifications, matchVars>>
    /\ syncRepos(TRUE, "none")

\* onAlarmHandler (background.js:1163-1167)
AlarmFired ==
    /\ nEvents < MaxEvents
    /\ nEvents' = nEvents + 1
    /\ alarm.on
    /\ UNCHANGED <<envVars, tabs, config, settingsVars, sessionVars, initPc, alarm,
                   notifications, popup, matchVars>>
    /\ syncRepos(FALSE, "none")

\* saveOptions, and onBrowserStorageChanged (background.js:991-1017) with the keys
\* whose value changed
OptionsSaved(new) ==
    /\ nEvents < MaxEvents
    /\ nEvents' = nEvents + 1
    /\ \E key \in {"token", "autosync", "archived"} : Changed(new, key)
    /\ config' = new
    /\ Authorization' =
          IF ~Changed(new, "token") THEN Authorization
          ELSE IF new.token # "" THEN setToken(new.token)
          ELSE setToken("[object Object]")
    /\ showArchivedRepos' =
          IF Changed(new, "archived") THEN new.archived ELSE showArchivedRepos
    /\ IF Changed(new, "autosync")
       THEN /\ autoSyncRepos' = new.autosync
            /\ IF Truthy(new.autosync) THEN createAlarm(new.autosync) ELSE cancelAlarm
            /\ UNCHANGED syncVars
       ELSE /\ syncRepos(TRUE, "none")
            /\ UNCHANGED <<autoSyncRepos, alarm>>
    /\ UNCHANGED <<envVars, tabs, sessionVars, initPc, notifications, popup, matchVars>>

(***************************************************************************)
(* The omnibox session (background.js:1024-1072)                           *)
(***************************************************************************)
\* getSuggestionsCache: the in-memory list when it has entries, else the persisted
\* one, which syncLocalRepos also stores in memory
CacheForSession == IF Len(suggestionsCache) > 0 THEN suggestionsCache ELSE LocalRepos

NoResults(text) ==
    IF isChrome THEN "No repositories found matching <match>" \o text \o "</match>"
    ELSE "No repositories found matching \"" \o text \o "\""

\* mutant: the default suggestion taken from the last result
DefaultSuggestion_Last(text, suggestions) ==
    IF Len(suggestions) > 0 THEN suggestions[Len(suggestions)].description
    ELSE NoResults(text)

\* the description given to omnibox.setDefaultSuggestion (background.js:1056-1068)
DefaultSuggestion(text, suggestions) ==
    IF Len(suggestions) > 0 THEN suggestions[1].description ELSE NoResults(text)

\* mutant: the top entry removed on every browser
EmittedList_AlwaysShift(suggestions) == Tail(suggestions)

\* the list passed to suggest() when there are results: suggestions.shift() runs only
\* if (isChrome) (background.js:1059-1061)
EmittedList(suggestions) == IF isChrome THEN Tail(suggestions) ELSE suggestions

\* mutant: syncLocalRepos that goes on to a remote sync when the stored list is empty
syncLocalRepos_SyncsIfEmpty ==
    /\ suggestionsCache' = LocalRepos
    /\ IF Len(repos) = 0 /\ ~isFetching /\ nRequests + PagesOf(account) <= MaxRequests
       THEN syncRepos(FALSE, "none")
       ELSE UNCHANGED syncVars

\* syncLocalRepos(callback): storage.local.get of repos into the in-memory list, and
\* nothing else
syncLocalRepos ==
    /\ suggestionsCache' = LocalRepos
    /\ UNCHANGED syncVars

\* getSuggestionsCache(callback): the in-memory list when it has entries, otherwise
\* syncLocalRepos
getSuggestionsCache ==
    IF Len(suggestionsCache) > 0
    THEN UNCHANGED <<suggestionsCache, syncVars>>
    ELSE syncLocalRepos

\* omnibox.onInputStarted: syncLocalRepos
InputStarted ==
    /\ nEvents < MaxEvents
    /\ nEvents' = nEvents + 1
    /\ UNCHANGED <<envVars, tabs, config, settingsVars, omnibox, pendingGet, initPc, alarm,
                   notifications, popup, matchVars>>
    /\ syncLocalRepos

\* the callback onInputChangedHandler gives to getSuggestionsCache, run with the list
\* cache: one setDefaultSuggestion in either branch and one suggest
\* (background.js:1053-1071)
Suggested(text, cache) ==
    CHOOSE out \in
        { [omnibox EXCEPT
             !.text = text,
             !.defaults = @ + 1,
             !.calls = @ + 1,
             !.results = Len(suggestions),
             !.default = DefaultSuggestion(text, suggestions),
             !.suggested = IF Len(suggestions) > 0 THEN EmittedList(suggestions)
                           ELSE suggestions] :
          suggestions \in {highlightResults(text, cache)} } : TRUE

\* mutant: getSuggestionsCache going on to syncLocalRepos after the callback has run
ReadsStorage_Always == TRUE

\* getSuggestionsCache returns after calling back with the in-memory list; it reaches
\* syncLocalRepos only when that list has no entries (background.js:1039-1043)
ReadsStorage == Len(suggestionsCache) = 0

\* onInputChangedHandler(text, suggest): the callback runs at once when the in-memory
\* list has entries; otherwise it waits for the storage.local.get of syncLocalRepos
onInputChangedHandler(text) ==
    /\ nEvents < MaxEvents
    /\ nEvents' = nEvents + 1
    /\ UNCHANGED <<envVars, tabs, config, settingsVars, initPc, alarm,
                   notifications, popup, matchVars>>
    /\ UNCHANGED <<suggestionsCache, syncVars>>
    /\ pendingGet' = IF ReadsStorage
                     THEN Append(pendingGet, [text |-> text, fetches |-> lastFetch.n])
                     ELSE pendingGet
    /\ omnibox' = IF Len(suggestionsCache) > 0
                  THEN [Suggested(text, suggestionsCache) EXCEPT
                           !.events = @ + 1, !.during = 0]
                  ELSE [omnibox EXCEPT !.events = @ + 1]

\* the callback of the storage.local.get that syncLocalRepos issued for a query: the
\* stored list goes to the in-memory one and to the callback of the handler (during:
\* the fetches that ended while the query waited, for the properties)
GetDone ==
    /\ Len(pendingGet) > 0
    /\ pendingGet' = Tail(pendingGet)
    /\ UNCHANGED <<envVars, tabs, config, settingsVars, initPc, alarm,
                   notifications, popup, nEvents, matchVars>>
    /\ syncLocalRepos
    /\ omnibox' = [Suggested(Head(pendingGet).text, LocalRepos) EXCEPT
                      !.during = lastFetch.n - Head(pendingGet).fetches]

SessionTexts == {"api", "("}

\* new URL(userInput) accepts an absolute URL and throws on anything else; of the
\* texts entered here the absolute URLs are those with the scheme https and a host
IsAbsoluteURL(userInput) ==
    /\ Len(userInput) > Len("https://")
    /\ SubSeq(userInput, 1, Len("https://")) = "https://"

\* .href: the serialised URL, with the path "/" when the text has none
Href(userInput) ==
    LET rest == SubSeq(userInput, Len("https://") + 1, Len(userInput))
    IN  IF SlashPositions(rest) = {} THEN userInput \o "/" ELSE userInput

\* the switch on disposition (background.js:1097-1107)
Navigation(url, disposition) ==
    [url |-> url,
     how |-> CASE disposition = "newForegroundTab" -> "create"
               [] disposition = "newBackgroundTab" -> "createInactive"
               [] OTHER -> "update"]

\* the value of url when 'if (url)' is reached: getSuggestionsCache calls back at once
\* only when the in-memory list has entries; otherwise the callback waits for
\* storage.local.get and runs after the test
UrlEntered(userInput) ==
    IF IsAbsoluteURL(userInput) THEN Href(userInput)
    ELSE IF Len(suggestionsCache) > 0
         THEN CHOOSE out \in
                  { IF Len(suggestions) > 0 THEN suggestions[1].content ELSE "" :
                       suggestions \in {highlightResults(userInput, suggestionsCache)} } :
                  TRUE
         ELSE ""

\* onInputEnteredHandler(userInput, disposition)
onInputEnteredHandler(userInput, disposition) ==
    /\ nEvents < MaxEvents
    /\ nEvents' = nEvents + 1
    /\ UNCHANGED <<envVars, config, settingsVars, omnibox, pendingGet, initPc, alarm,
                   notifications, popup, matchVars>>
    /\ IF IsAbsoluteURL(userInput)
       THEN UNCHANGED <<suggestionsCache, syncVars>>
       ELSE getSuggestionsCache
    /\ \E url \in {UrlEntered(userInput)} :
          tabs' = IF url # "" THEN Navigation(url, disposition) ELSE tabs

EnteredTexts == {"api", "zz", "https://github.com"}

Dispositions == {"currentTab", "newForegroundTab", "newBackgroundTab"}

(***************************************************************************)
(* The extension: state after the background script has run init()         *)
(***************************************************************************)
SystemStart ==
    /\ Authorization = ""
    /\ showArchivedRepos = FALSE
    /\ autoSyncRepos = Num(30)
    /\ isFetching = FALSE
    /\ suggestionsCache = << >>
    /\ initPc = "getConfig"
    /\ chains = {}
    /\ pendingSet = << >>
    /\ alarm = [on |-> FALSE, period |-> 0]
    /\ notifications = << >>
    /\ popup = [open |-> FALSE, disabled |-> FALSE, needsToken |-> FALSE]
    /\ tabs = [url |-> "", how |-> "none"]
    /\ pendingGet = << >>
    /\ omnibox = [text |-> "", events |-> 0, defaults |-> 0, calls |-> 0, during |-> 0,
                  results |-> 0,
                  default |-> "Search for a Github Repo (e.g. \"jquery\")",
                  suggested |-> << >>]
    /\ nSyncs = 0
    /\ nRequests = 0
    /\ nEvents = 0
    /\ lastCall = [n |-> 0, wasFetching |-> FALSE, requests |-> 0, result |-> "none"]
    /\ lastFetch = [n |-> 0, id |-> 0, status |-> "none", cause |-> "none",
                    notified |-> << >>, pages |-> << >>, reqs |-> << >>,
                    before |-> << >>, after |-> << >>,
                    started |-> [auth |-> "", shown |-> FALSE]]
    /\ sinceStart = [repos |-> << >>, writes |-> 0, auth |-> "", shown |-> FALSE]

Init ==
    /\ isChrome \in BOOLEAN
    /\ account \in AccountSizes
    /\ \E store \in InitStores :
          config = store.config /\ localKeys = store.keys /\ repos = store.repos
    /\ SystemStart
    /\ qText = "" /\ qResults = << >> /\ qOut = << >> /\ qPc = "off"

Next ==
    \/ InitConfigLoaded
    \/ InitLocalLoaded
    \/ PopupOpen
    \/ PopupSync
    \/ AlarmFired
    \/ \E new \in SavedConfigs : OptionsSaved(new)
    \/ \E c \in chains, r \in Responses : FetchResponse(c, r)
    \/ SetDone
    \/ InputStarted
    \/ \E text \in SessionTexts : onInputChangedHandler(text)
    \/ GetDone
    \/ \E userInput \in EnteredTexts, disposition \in Dispositions :
          onInputEnteredHandler(userInput, disposition)

Spec == Init /\ [][Next]_vars

\* every network request ends with a response or an error, every storage callback
\* runs, and the callbacks of init run; user and timer events need not arrive
Fairness ==
    /\ WF_vars(\E c \in chains, r \in Responses : FetchResponse(c, r))
    /\ WF_vars(SetDone \/ GetDone)
    /\ WF_vars(InitConfigLoaded)
    /\ WF_vars(InitLocalLoaded)

FairSpec == Spec /\ Fairness

(***************************************************************************)
(* Properties                                                              *)
(***************************************************************************)
Range(seq) == { seq[i] : i \in 1..Len(seq) }

Upto(n) == [i \in 1..n |-> i]

\* C1: at most one paginated fetch is in flight at any time, and a syncRepos call
\* made while isFetching gets the empty result at once and issues no request
SingleFlight ==
    /\ Cardinality(chains) <= 1
    /\ lastCall.wasFetching => (lastCall.requests = 0 /\ lastCall.result = "empty")

\* C1 witness: a sync was called while a fetch was waiting for its response
SingleFlightWitness ==
    /\ lastCall.wasFetching
    /\ Cardinality(chains) = 1
    /\ lastCall.n > (CHOOSE c \in chains : TRUE).id

\* C2 as claimed: a sync called while another is fetching leaves the cache alone, so
\* that from the start of a fetch to its end the cache is written once, at the end
OverlappingSyncWritesOnce ==
    /\ isFetching => sinceStart.writes = 0
    /\ ~isFetching => sinceStart.writes <= 1

\* C4 as claimed: when a fetch has failed the persisted cache equals the cache
\* that was persisted when the fetch started
FailedSyncKeepsCache ==
    lastFetch.status = "failed" => lastFetch.after = lastFetch.before

\* C7: for a query that does not compile the handler completes with no match
\* result, the no-results default suggestion and an empty suggestion list
InvalidQueryHandled ==
    (omnibox.calls > 0 /\ ~RegExpCompiles(omnibox.text)) =>
        /\ omnibox.results = 0
        /\ omnibox.default = NoResults(omnibox.text)
        /\ omnibox.suggested = << >>

\* C7 witness: "(" was typed while the cache held candidates
InvalidQueryWitness ==
    /\ omnibox.calls > 0
    /\ omnibox.text = "("
    /\ Len(suggestionsCache) > 0

\* C3 as claimed: highlightResults returns at most MAX_SUGGESTIONS entries
AtMostLimit == qPc = "done" => Len(qOut) <= MAX_SUGGESTIONS

\* the repository name of a cached suggestion: the text after the "/" of its
\* full name, which is the description without the trailing " -"
RepoNameOf(description) == LastSegment(SubSeq(description, 1, Len(description) - 2))

FullNameOf(description) == SubSeq(description, 1, Len(description) - 2)

\* the candidates, by position, whose repository name matches the query
NameMatching == { i \in 1..Len(qResults) : RegExpTest(qText, RepoNameOf(qResults[i].description)) }

\* the candidates, by position, whose full description matches the query
FullMatching == { i \in 1..Len(qResults) : RegExpTest(qText, qResults[i].description) }

\* the candidates, by position, that match through their owner and not their name
OwnerMatching ==
    { i \in 1..Len(qResults) : RegExpTest(qText, FullNameOf(qResults[i].description)) }
        \ NameMatching

\* the position in qResults of the candidate the k-th result was derived from
SourceOf(k) == CHOOSE i \in 1..Len(qResults) : qResults[i].content = qOut[k].content

\* C5 as claimed: when fewer than MAX_SUGGESTIONS candidates match on the repository
\* name, the result is filled with the candidates whose full description matches
\* until the limit is reached or they are exhausted, and holds no candidate twice
FillsToLimit ==
    (qPc = "done" /\ RegExpCompiles(qText) /\ Cardinality(NameMatching) < MAX_SUGGESTIONS) =>
        /\ Len(qOut) = IF Cardinality(FullMatching) < MAX_SUGGESTIONS
                       THEN Cardinality(FullMatching) ELSE MAX_SUGGESTIONS
        /\ \A k \in 1..Len(qOut) : SourceOf(k) \in FullMatching
        /\ \A k, l \in 1..Len(qOut) : k # l => qOut[k].content # qOut[l].content

\* C6 as claimed: every result whose repository name matches comes before every
\* result that matches only through its owner, and each of the two groups keeps
\* the order of the cache
NameMatchesFirst ==
    qPc = "done" =>
        \A k, l \in 1..Len(qOut) :
            k < l =>
                /\ ~(SourceOf(k) \in OwnerMatching /\ SourceOf(l) \in NameMatching)
                /\ ({SourceOf(k), SourceOf(l)} \subseteq NameMatching => SourceOf(k) < SourceOf(l))
                /\ ({SourceOf(k), SourceOf(l)} \subseteq OwnerMatching => SourceOf(k) < SourceOf(l))

AllFull(pages) == \A i \in 1..Len(pages) : pages[i].size = RESULTS_PER_PAGE

Sizes(pages) == [i \in 1..Len(pages) |-> pages[i].size]

\* C8: a fetch requests the pages 1, 2, 3, ... in order, goes on after every page
\* of 100 and stops after the first shorter page; sizes 100, 100, 37 make 3 requests
\* and, when archived records are kept so that none is filtered out, 237 items; a
\* first page of size 0 makes 1 request and no item
Pagination ==
    /\ \A c \in chains :
          /\ c.reqs = Upto(c.page)
          /\ Len(c.pages) = c.page - 1
          /\ AllFull(c.pages)
    /\ lastFetch.status = "ok" =>
          /\ lastFetch.reqs = Upto(Len(lastFetch.pages))
          /\ Len(lastFetch.pages) >= 1
          /\ AllFull(SubSeq(lastFetch.pages, 1, Len(lastFetch.pages) - 1))
          /\ lastFetch.pages[Len(lastFetch.pages)].size < RESULTS_PER_PAGE
    /\ lastFetch.status = "failed" =>
          /\ lastFetch.reqs = Upto(Len(lastFetch.pages) + 1)
          /\ AllFull(lastFetch.pages)
    /\ (lastFetch.status = "ok" /\ Sizes(lastFetch.pages) = <<100, 100, 37>>) =>
          /\ Len(lastFetch.reqs) = 3
          /\ (\A i \in 1..3 : lastFetch.pages[i].shown) => Len(lastFetch.after) = 237
    /\ (lastFetch.status = "ok" /\ lastFetch.pages[1].size = 0) =>
          /\ Len(lastFetch.reqs) = 1
          /\ lastFetch.after = << >>

\* C8 witness: a fetch of pages of sizes 100, 100, 37 ended with 237 items
PaginationWitness ==
    /\ lastFetch.status = "ok"
    /\ Sizes(lastFetch.pages) = <<100, 100, 37>>
    /\ Len(lastFetch.after) = 237

\* the records the fetch received, page after page
RECURSIVE FetchedRecords(_)
FetchedRecords(n) ==
    IF n = 0 THEN << >> ELSE FetchedRecords(n - 1) \o PageData(account, n)

Contents(suggestions) == { suggestions[i].content : i \in 1..Len(suggestions) }

\* C9: after a successful sync with includeArchived (showArchivedRepos) false for
\* every page of the fetch the cache has a suggestion for a fetched record exactly if
\* the record is not archived; with includeArchived true it has one for every
\* fetched record
ArchivedFiltered ==
    lastFetch.status = "ok" =>
        LET fetched == Range(FetchedRecords(Len(lastFetch.pages))) IN
          /\ (\A i \in 1..Len(lastFetch.pages) : ~lastFetch.pages[i].shown) =>
                Contents(lastFetch.after) = { r.html_url : r \in { x \in fetched : ~x.archived } }
          /\ (\A i \in 1..Len(lastFetch.pages) : lastFetch.pages[i].shown) =>
                Contents(lastFetch.after) = { r.html_url : r \in fetched }

\* C9 witness: a sync with includeArchived false fetched archived records and wrote
\* a non-empty cache
ArchivedFilteredWitness ==
    /\ lastFetch.status = "ok"
    /\ \A i \in 1..Len(lastFetch.pages) : ~lastFetch.pages[i].shown
    /\ \E r \in Range(FetchedRecords(Len(lastFetch.pages))) : r.archived
    /\ Len(lastFetch.after) > 0

\* the records a fetch retained, page after page, each page in the order received
RECURSIVE RetainedRecords(_, _)
RetainedRecords(pages, n) ==
    IF n = 0 THEN << >>
    ELSE RetainedRecords(pages, n - 1) \o
            (IF pages[n].shown THEN PageData(account, n)
             ELSE SelectSeq(PageData(account, n), NotArchived))

\* C10: after a successful sync the cache holds exactly one suggestion
\* {content: html_url, description: full_name + " -"} per retained record, without
\* duplicates, in the order of the API
CacheInApiOrder ==
    lastFetch.status = "ok" =>
        LET retained == RetainedRecords(lastFetch.pages, Len(lastFetch.pages)) IN
          /\ Len(lastFetch.after) = Len(retained)
          /\ \A i \in 1..Len(retained) :
                /\ lastFetch.after[i].content = retained[i].html_url
                /\ lastFetch.after[i].description = retained[i].full_name \o " -"
          /\ Cardinality(Contents(lastFetch.after)) = Len(lastFetch.after)

\* C10 witness: a sync of more than one page wrote its cache
CacheInApiOrderWitness ==
    /\ lastFetch.status = "ok"
    /\ Len(lastFetch.pages) > 1
    /\ Len(lastFetch.after) > RESULTS_PER_PAGE

\* C11 as claimed: a sync that failed raised the notification of its type: the token
\* notification for a 401, the sync-error notification for every other failure
FailedSyncNotifies ==
    lastFetch.status = "failed" =>
        lastFetch.notified = IF lastFetch.cause = "401" THEN <<"tokenError">>
                             ELSE <<"syncError">>

\* C12 as claimed: while a fetch is under way the sync button of the popup is
\* disabled, whichever trigger started the fetch, and once a fetch has ended with
\* success or with a failure other than a 401 the button is enabled again
SyncButtonFollowsFetching ==
    popup.open =>
        /\ isFetching => popup.disabled
        /\ (~isFetching /\ lastFetch.n > 0 /\ lastFetch.cause # "401") => ~popup.disabled

\* C13 as claimed: a popup opened after a sync failed with a 401, with no sync called
\* since, shows the needs-token state and not an enabled sync button
AuthFailureNeedsToken ==
    [][(PopupOpen /\ ~isFetching /\ lastFetch.cause = "401" /\ lastCall.n = lastFetch.id)
          => (popup'.needsToken /\ popup'.disabled)]_vars

\* C14 as claimed: on selection confirmed, text that is an absolute URL is navigated
\* to; other text is matched against the cache (the in-memory list, or the persisted
\* one when the in-memory list is empty) and the top result's URL is navigated to when
\* there is a result; nothing happens only when nothing matches
SelectionNavigates ==
    [][\A userInput \in EnteredTexts, disposition \in Dispositions :
          onInputEnteredHandler(userInput, disposition) =>
              LET ranked == highlightResults(userInput, CacheForSession)
                  url == IF IsAbsoluteURL(userInput) THEN Href(userInput)
                         ELSE IF Len(ranked) > 0 THEN ranked[1].content ELSE ""
              IN  IF url = "" THEN tabs' = tabs ELSE tabs'.url = url]_vars

\* C16 as claimed: every page of a fetch is requested with the header, and filtered
\* with the showArchivedRepos value, that were in effect when the fetch started
FetchUsesStartConfig ==
    /\ \A c \in chains :
          /\ c.auth = sinceStart.auth
          /\ \A i \in 1..Len(c.pages) :
                c.pages[i].auth = sinceStart.auth /\ c.pages[i].shown = sinceStart.shown
    /\ \A i \in 1..Len(lastFetch.pages) :
          /\ lastFetch.pages[i].auth = lastFetch.started.auth
          /\ lastFetch.pages[i].shown = lastFetch.started.shown

\* the token or showArchivedRepos in effect is not the one the last fetch started with
SettingsStale ==
    Authorization # sinceStart.auth \/ showArchivedRepos # sinceStart.shown

\* a step of the omnibox session that reads the cache: onInputStarted, onInputChanged
\* or the storage callback of a query
SessionStep ==
    InputStarted \/ GetDone \/ \E text \in SessionTexts : onInputChangedHandler(text)

\* C17 as claimed: a session start or a query change that finds the cache empty (the
\* in-memory list and the persisted one) while no fetch is running starts a fetch
SessionSyncsIfEmpty ==
    [][(SessionStep /\ Len(suggestionsCache) = 0 /\ Len(repos) = 0 /\ ~isFetching
          /\ nRequests + PagesOf(account) <= MaxRequests)
        => isFetching']_vars

\* C17 as the code has it: a session start or a query change only reads the persisted
\* list into the in-memory one (a query change only when the in-memory one is empty);
\* it calls no sync, sends no request and writes nothing, so an empty persisted cache
\* stays empty until another trigger arrives
SessionReadsLocalOnly ==
    [][SessionStep =>
         /\ UNCHANGED <<isFetching, chains, nSyncs, nRequests, repos, pendingSet>>
         /\ (InputStarted \/ GetDone) => suggestionsCache' = repos]_vars

\* a query was answered from an empty cache with a token in use, and no sync has been
\* called before or since
SessionReadsLocalOnlyWitness ==
    /\ omnibox.calls > 0 /\ omnibox.text = "api" /\ omnibox.results = 0
    /\ Len(repos) = 0 /\ Len(suggestionsCache) = 0
    /\ Authorization # "" /\ initPc = "done"
    /\ nSyncs = 0 /\ ~isFetching

Contains(s, sub) ==
    \E i \in 1..(Len(s) - Len(sub) + 1) : SubSeq(s, i, i + Len(sub) - 1) = sub

\* a step in which the callback of a query-changed event runs, at once in the handler
\* or as the storage callback: it is the only step that calls suggest
QueryAnswered == omnibox'.calls = omnibox.calls + 1

\* a step in which a query-changed event arrives
QueryAsked == omnibox'.events = omnibox.events + 1

\* the query answered in the step is text
Answers(text) == QueryAnswered /\ omnibox'.text = text

\* C18: every query-changed event sets the default suggestion to the display text of
\* the first entry of the ranked result for the cache it resolved, and, when that
\* result is empty, to a no-results message that contains the query
DefaultIsTopResult ==
    [][\A text \in SessionTexts :
          Answers(text) =>
             LET ranked == highlightResults(text, suggestionsCache')
             IN  IF Len(ranked) > 0
                 THEN omnibox'.default = ranked[1].description
                 ELSE /\ Contains(omnibox'.default, text)
                      /\ Contains(omnibox'.default, "No repositories found")]_vars

\* a query with several matches has been answered, and the default suggestion shown is
\* the first of them
DefaultIsTopResultWitness ==
    /\ omnibox.calls > 0 /\ omnibox.text = "api" /\ omnibox.results > 1
    /\ Len(suggestionsCache) > 0
    /\ omnibox.default = highlightResults("api", suggestionsCache)[1].description

\* C19 as claimed: on every query-changed event with a non-empty ranked result the
\* emitted list is the ranked result without its first entry
EmittedIsRest ==
    [][\A text \in SessionTexts :
          Answers(text) =>
             LET ranked == highlightResults(text, suggestionsCache')
             IN  Len(ranked) > 0 => omnibox'.suggested = Tail(ranked)]_vars

\* C19 as the code has it: on Chrome the emitted list is the ranked result without
\* its first entry; on Firefox it is the whole ranked result, first entry included
EmittedIsRestOnChrome ==
    [][\A text \in SessionTexts :
          Answers(text) =>
             LET ranked == highlightResults(text, suggestionsCache')
             IN  Len(ranked) > 0 =>
                    omnibox'.suggested = IF isChrome THEN Tail(ranked) ELSE ranked]_vars

\* on Firefox a query with several matches has been answered and the entry shown as
\* default suggestion is also the first of the list
EmittedIsRestOnChromeWitness ==
    /\ ~isChrome
    /\ omnibox.calls > 0 /\ omnibox.results > 1
    /\ Len(omnibox.suggested) = omnibox.results
    /\ omnibox.suggested[1].description = omnibox.default

\* C20: with every request completing, Fetching always leads back to Idle, after a
\* success and after a failure at any page; Fetching never outlives the request it
\* waits for; and a sync called while Idle starts a new fetch with a request for page 1
FetchingEnds ==
    /\ isFetching ~> ~isFetching
    /\ [](isFetching => chains # {})
    /\ [][(nSyncs' = nSyncs + 1 /\ ~isFetching)
            => (isFetching' /\ nRequests' = nRequests + 1
                /\ \E c \in chains' : c.id = nSyncs' /\ c.page = 1)]_vars

\* a fetch has failed, the orchestrator went back to Idle, and a sync called after the
\* failure is fetching again
FetchingEndsWitness ==
    /\ lastFetch.status = "failed"
    /\ lastCall.n > lastFetch.id /\ ~lastCall.wasFetching /\ lastCall.requests = 1
    /\ isFetching /\ chains # {}

\* C21: the persisted cache changes only in a step of syncRepos (a call of it, or the
\* end of its fetch), and the step that ends a fetch with success leaves the cache
\* equal to the list that fetch produced: one suggestion per retained record and no
\* entry of the previous cache that the fetch did not return
CacheReplacedWhole ==
    [][/\ repos' # repos => (nSyncs' = nSyncs + 1 \/ lastFetch'.n = lastFetch.n + 1)
       /\ (lastFetch'.n = lastFetch.n + 1 /\ lastFetch'.status = "ok") =>
             LET retained == RetainedRecords(lastFetch'.pages, Len(lastFetch'.pages)) IN
               /\ repos' = lastFetch'.after
               /\ repos' = [i \in 1..Len(retained) |-> formatAsSuggestion(retained[i])]
               /\ Contents(repos') \subseteq
                     { r.html_url : r \in Range(FetchedRecords(Len(lastFetch'.pages))) }]_vars

\* a successful sync has replaced a cache that held entries it did not fetch
CacheReplacedWholeWitness ==
    /\ lastFetch.status = "ok"
    /\ repos = lastFetch.after /\ Len(repos) > 0
    /\ \E i \in 1..Len(lastFetch.before) : lastFetch.before[i] \notin Range(repos)

\* the number of matches of the pattern in s from position i on, found from left to
\* right without overlap
RECURSIVE CountMatches(_, _, _)
CountMatches(pattern, s, i) ==
    IF i + Len(pattern) - 1 > Len(s) THEN 0
    ELSE IF MatchesAt(pattern, s, i) THEN 1 + CountMatches(pattern, s, i + Len(pattern))
    ELSE CountMatches(pattern, s, i + 1)

\* the number of places of s where the literal text sub stands
Occurrences(s, sub) ==
    Cardinality({ i \in 1..(Len(s) - Len(sub) + 1) : SubSeq(s, i, i + Len(sub) - 1) = sub })

\* C22 as claimed, read in the claim's favour for the browser whose results carry
\* markup (Chrome): in every result the description has one opening and one closing
\* match marker for every match of the query in the candidate's description
EveryMatchWrapped ==
    (qPc = "done" /\ isChrome /\ RegExpCompiles(qText)) =>
        \A k \in 1..Len(qOut) :
            LET n == CountMatches(qText, qResults[SourceOf(k)].description, 1) IN
              /\ Occurrences(qOut[k].description, "<match>") = n
              /\ Occurrences(qOut[k].description, "</match>") = n

\* position i of s lies inside a place where the literal text sub stands
Covered(s, sub, i) ==
    \E p \in (i - Len(sub) + 1)..i :
        /\ p >= 1 /\ p + Len(sub) - 1 <= Len(s)
        /\ SubSeq(s, p, p + Len(sub) - 1) = sub

\* the characters lo..hi of s that lie in no such place (the range is halved to keep
\* the evaluation shallow)
RECURSIVE Without(_, _, _, _)
Without(s, sub, lo, hi) ==
    IF lo > hi THEN ""
    ELSE IF lo = hi THEN (IF Covered(s, sub, lo) THEN "" ELSE Char(s, lo))
    ELSE CHOOSE out \in
             { Without(s, sub, lo, mid) \o Without(s, sub, mid + 1, hi) :
                  mid \in {(lo + hi) \div 2} } : TRUE

StripMarkers(s) ==
    CHOOSE out \in
        { Without(opened, "</match>", 1, Len(opened)) :
             opened \in {Without(s, "<match>", 1, Len(s))} } : TRUE

\* no description of the list carries markup
Plain(list) ==
    \A i \in 1..Len(list) :
        \A j \in 1..Len(list[i].description) : Char(list[i].description, j) # "<"

\* the result entry e was made from the candidate c: it has c's content, and its
\* description is c's description, on Chrome with markup around it and around the URL
DerivedFrom(e, c) ==
    /\ e.content = c.content
    /\ StripMarkers(e.description) =
          IF isChrome
          THEN "<dim>" \o c.description \o "</dim> <url>" \o c.content \o "</url>"
          ELSE c.description

\* a selection-confirmed event
EnteredStep ==
    \E userInput \in EnteredTexts, disposition \in Dispositions :
        onInputEnteredHandler(userInput, disposition)

\* the step leaves the persisted list as it is and the in-memory list as it is or as
\* just read from the persisted one, both with plain descriptions
InputLeftAlone ==
    /\ repos' = repos
    /\ suggestionsCache' \in {suggestionsCache, repos}
    /\ Plain(repos') /\ Plain(suggestionsCache')

SuccessNotifications ==
    Cardinality({ i \in 1..Len(notifications) : notifications[i] = "syncSuccess" })

\* C25 as claimed: each success notification comes from a sync call of its own whose
\* fetch ended with success, and none from a call that was skipped or that failed; so
\* there are never more success notifications than fetches that have ended
SuccessNotifiedByFetch == SuccessNotifications <= lastFetch.n

\* C26 as claimed, for the case the claim singles out: once a successful sync has
\* written its list and nothing has been fetched or written since, the list a
\* query-changed event, or a selection-confirmed event for a text that is not a URL,
\* matches against (the in-memory list it leaves behind) equals the persisted cache
MatchesCurrentCache ==
    [][(/\ lastFetch.status = "ok" /\ ~isFetching /\ repos = lastFetch.after
        /\ \/ QueryAnswered
           \/ EnteredStep /\ ~IsAbsoluteURL(tabs'.url))
        => suggestionsCache' = repos]_vars

\* a token is saved in the settings and the saved auto-sync interval is not zero
AutoSyncWanted == config.stored /\ config.token # "" /\ config.autosync.val # 0

\* C27 as claimed: while a token is configured and the interval is not zero the
\* periodic alarm eventually gets set, whatever the outcome of the start-up sync; and
\* a settings change that makes the interval zero leaves no alarm set
AutoSyncScheduled ==
    /\ AutoSyncWanted ~> (alarm.on \/ ~AutoSyncWanted)
    /\ [][(config' # config /\ config.autosync.val # 0 /\ config'.autosync.val = 0)
            => ~alarm'.on]_vars

\* C28: a fetch that ended with success has requested every page of the account, a
\* page of 100 records being followed by a request for the next one also where the
\* archived filter took records out of it, and the cache it wrote has every record of
\* the account that is not archived, whatever page it is on
NextPageByRawLength ==
    lastFetch.status = "ok" =>
        /\ Len(lastFetch.pages) = PagesOf(account)
        /\ \A i \in 1..Len(lastFetch.pages) :
              (lastFetch.pages[i].size = RESULTS_PER_PAGE /\ ~lastFetch.pages[i].shown)
                  => lastFetch.reqs[i + 1] = i + 1
        /\ { AllRepos[i].html_url : i \in { j \in 1..account : ~AllRepos[j].archived } }
              \subseteq Contents(lastFetch.after)

\* a fetch of three pages, each filtered, ended with success and kept records of the
\* third page
NextPageByRawLengthWitness ==
    /\ lastFetch.status = "ok"
    /\ Len(lastFetch.pages) = 3
    /\ \A i \in 1..3 : ~lastFetch.pages[i].shown
    /\ Len(lastFetch.after) < account
    /\ AllRepos[account].html_url \in Contents(lastFetch.after)

\* the candidates the first loop of highlightResults collects for the query
PhaseOne ==
    NameLoop(qText, qResults, 1, Len(qResults),
             [highlights |-> << >>, added |-> {}, broken |-> FALSE]).highlights

\* C29 as claimed: every candidate phase 1 collects has a match of the query inside
\* its repository name, the text after the "/" of owner/repo without the " -" that
\* ends the stored description
PhaseOneMatchesName ==
    (qPc = "done" /\ RegExpCompiles(qText)) =>
        \A k \in 1..Len(PhaseOne) : RegExpTest(qText, RepoNameOf(PhaseOne[k].description))

\* C30: getStatus().isFetching is true exactly while a getRepos chain waits for a
\* response, on the first page and on every later one, and a syncRepos call that
\* search() skipped leaves it as it was
StatusFollowsFetch ==
    /\ [](getStatus.isFetching <=> chains # {})
    /\ [][(nSyncs' = nSyncs + 1 /\ lastCall'.result = "empty")
            => getStatus'.isFetching = getStatus.isFetching]_vars

\* a fetch waits for its second page, a sync call has been skipped meanwhile, and the
\* status shows the fetch
StatusFollowsFetchWitness ==
    /\ getStatus.isFetching
    /\ \E c \in chains : c.page > 1 /\ lastCall.n > c.id
    /\ lastCall.result = "empty"

\* the list the callback of a query runs with: the stored list when the step is the
\* storage callback, the in-memory list when the handler calls back at once
FullSnapshot == IF Len(pendingGet') < Len(pendingGet) THEN LocalRepos ELSE suggestionsCache

\* C31: each query-changed event results in exactly one setDefaultSuggestion call and
\* exactly one suggest call: the calls made so far are those of the events whose
\* callback has run, every event gets its callback when storage callbacks run, and the
\* callback matches the query against the whole list, the in-memory one or the one
\* read from storage, whatever syncs have ended in between
OneAnswerPerQuery ==
    /\ [](/\ omnibox.defaults = omnibox.calls
          /\ omnibox.calls + Len(pendingGet) = omnibox.events)
    /\ \A n \in 1..MaxEvents : (omnibox.events >= n) ~> (omnibox.calls >= n)
    /\ [][QueryAnswered =>
             /\ omnibox'.defaults = omnibox.defaults + 1
             /\ suggestionsCache' = FullSnapshot
             /\ omnibox'.results = Len(highlightResults(omnibox'.text, FullSnapshot))
             /\ omnibox'.default =
                   DefaultSuggestion(omnibox'.text,
                                     highlightResults(omnibox'.text, FullSnapshot))]_vars

\* a query found the in-memory list empty, a fetch ended with success while the query
\* waited for the storage callback, and the one answer it got comes from the list that
\* fetch had stored
OneAnswerPerQueryWitness ==
    /\ omnibox.events = 1 /\ omnibox.calls = 1 /\ omnibox.defaults = 1
    /\ Len(pendingGet) = 0
    /\ omnibox.during > 0
    /\ lastFetch.status = "ok" /\ repos = lastFetch.after
    /\ suggestionsCache = repos
    /\ omnibox.results > 1

\* the callback of getConfig in init has run in the step
ConfigStep == initPc = "getConfig" /\ initPc' # "getConfig"

\* the callback of the syncLocalRepos of init has run in the step
LocalStep == initPc = "syncLocal" /\ initPc' = "done"

\* C32: start-up goes on to its second step only when the saved token is not empty;
\* without one it ends with no sync called, no request sent and nothing written. The
\* second step puts the persisted list into memory and calls syncRepos once, with no
\* success notification asked for: the request for page 1 it sends, or the write it
\* queues, has notify off, and the step itself notifies nothing
StartUpSyncsWithToken ==
    [][/\ ConfigStep =>
             /\ UNCHANGED <<isFetching, chains, nSyncs, nRequests, repos, localKeys,
                            pendingSet, suggestionsCache, notifications>>
             /\ initPc' = IF config.token = "" THEN "done" ELSE "syncLocal"
       /\ LocalStep =>
             /\ suggestionsCache' = LocalRepos
             /\ nSyncs' = nSyncs + 1
             /\ notifications' = notifications
             /\ IF isFetching
                THEN /\ chains' = chains /\ nRequests' = nRequests
                     /\ Len(pendingSet') = Len(pendingSet) + 1
                     /\ ~pendingSet'[Len(pendingSet')].notify
                ELSE /\ isFetching' /\ nRequests' = nRequests + 1
                     /\ pendingSet' = pendingSet /\ repos' = repos
                     /\ \E c \in chains' :
                           /\ chains' = chains \cup {c}
                           /\ c.id = nSyncs' /\ c.page = 1 /\ ~c.notify]_vars

\* start-up with a saved token has ended before any event: the cache of the last run is
\* in memory, one sync has been called and its request for page 1 is under way, with
\* no notification to come
StartUpSyncsWithTokenWitness ==
    /\ initPc = "done" /\ nEvents = 0
    /\ config.token # "" /\ Authorization # ""
    /\ suggestionsCache = OldCache /\ repos = OldCache
    /\ nSyncs = 1 /\ nRequests = 1 /\ isFetching
    /\ \E c \in chains : c.id = 1 /\ c.page = 1 /\ ~c.notify
    /\ notifications = << >>

\* C15 as claimed: a change of the token or of includeArchived is eventually followed
\* by the start of a fetch with the changed settings, whatever else changed in the
\* same event and whether or not a fetch was under way.  Stated for the states in
\* which init has finished and the request budget allows another fetch, and read in
\* the claim's favour: a periodic alarm that is set counts as a re-fetch to come
ChangeLeadsToRefetch ==
    (SettingsStale /\ initPc = "done" /\ nRequests + PagesOf(account) <= MaxRequests)
        ~> (~SettingsStale \/ alarm.on)

(***************************************************************************)
(* The matcher specification: highlightResults applied to bounded inputs   *)
(***************************************************************************)
MatchInit ==
    /\ isChrome \in BOOLEAN
    /\ account = 0
    /\ config = FreshConfig
    /\ repos = << >>
    /\ localKeys = {}
    /\ SystemStart
    /\ qText = ""
    /\ qResults \in CandidateLists
    /\ qOut = << >>
    /\ qPc = "ready"

RunHighlight(text) ==
    /\ qPc = "ready"
    /\ qText' = text
    /\ qOut' = highlightResults(text, qResults)
    /\ qPc' = "done"
    /\ UNCHANGED <<envVars, tabs, config, settingsVars, syncVars, sessionVars, initPc, alarm,
                   notifications, popup, nEvents, qResults>>

MatchNext == \E text \in Queries : RunHighlight(text)

MatchSpec == MatchInit /\ [][MatchNext]_vars

====
